---- MODULE Spec2Model ----
(***************************************************************************)
(* World, Comps and Material::lighting of the ray tracer as a state        *)
(* machine: a World value (light + shapes) is built by pushes and          *)
(* assignments to its public fields and queried by color_at, intersect,    *)
(* prepare_computations, shade_hit and is_shadowed.                        *)
(*                                                                         *)
(* Numbers.  f64 values are modelled by exact integers on a lattice:       *)
(*   - lengths and ray parameters t count multiples of                     *)
(*     Comps::OVER_POINT_EPSILON (the code is scale free apart from that   *)
(*     constant, so a sphere of radius 2 is a sphere scaled by 2 epsilon); *)
(*   - directions and normals are the axis unit vectors, so dot products   *)
(*     of unit vectors are -1, 0 or 1 and square roots are exact;          *)
(*   - colour channels count thousandths, material coefficients tenths.    *)
(* Scenes live on the z axis: ray origins, the light and the hit points    *)
(* have x = y = 0, which keeps normalize() exact.  Shapes may sit off the  *)
(* axis (they are then missed) or be parallel to it.                       *)
(***************************************************************************)
EXTENDS Integers, Sequences, FiniteSets, Bags, TLC

VARIABLES
    light,      \* World.light : PointLight
    shapes,     \* World.shapes : Vec<Shape>
    op,         \* name of the last operation performed
    ray,        \* Ray argument of the last query
    pt,         \* point argument of the last is_shadowed / lighting call
    isect,      \* Intersection argument of the last prepare_computations / shade_hit
    color,      \* Color returned by the last color_at / shade_hit / lighting
    xs,         \* Vec<Intersection> returned by the last intersect
    comps,      \* Comps returned by the last prepare_computations
    shadow,     \* bool returned by the last is_shadowed (or evaluated by shade_hit)
    sray,       \* the shadow ray cast by the last is_shadowed
    hitrec,     \* Option<Intersection> color_at matched on
    largs,      \* (material, light, eyev, normalv) of the last lighting call
    again       \* the last call is color_at, and so was the one before, with the same ray

vars == <<light, shapes, op, ray, pt, isect, color, xs, comps, shadow, sray, hitrec, largs, again>>

(* ------------------------------ bounds -------------------------------- *)
\* shapes pushed onto a World after its construction
MaxPush == 1
\* ray origins and query points lie at z in -MaxZ .. MaxZ
MaxZ == 1

(* ----------------------------- constants ------------------------------ *)
\* Comps::OVER_POINT_EPSILON, the unit of length of the model
OVER_POINT_EPSILON == 1

(* ------------------------- tuple.rs (external) ------------------------ *)
point(x, y, z) == <<x, y, z>>
vector(x, y, z) == <<x, y, z>>

Add(a, b) == <<a[1] + b[1], a[2] + b[2], a[3] + b[3]>>
Sub(a, b) == <<a[1] - b[1], a[2] - b[2], a[3] - b[3]>>
Neg(a) == <<-a[1], -a[2], -a[3]>>
Mul(a, k) == <<a[1] * k, a[2] * k, a[3] * k>>
dot(a, b) == a[1] * b[1] + a[2] * b[2] + a[3] * b[3]

\* floor of the square root; exact on the perfect squares the lattice produces
Isqrt(n) == CHOOSE r \in 0..n : r * r <= n /\ (r + 1) * (r + 1) > n

magnitude(v) == Isqrt(dot(v, v))

\* v / |v|, an exact division for axis-aligned v
normalize(v) ==
    LET m == magnitude(v)
    IN  <<v[1] \div m, v[2] \div m, v[3] \div m>>

\* v - n * 2 * dot(v, n)
reflect(v, n) == Sub(v, Mul(n, 2 * dot(v, n)))

RECURSIVE powf(_, _)
powf(x, y) == IF x = 1 \/ y = 0 THEN 1 ELSE x * powf(x, y - 1)

(* ------------------------- color.rs (external) ------------------------ *)
Color_new(r, g, b) == <<r, g, b>>
Black == Color_new(0, 0, 0)
White == Color_new(1000, 1000, 1000)

\* Color * Color, component-wise, in thousandths
ColorMul(a, b) ==
    <<(a[1] * b[1]) \div 1000, (a[2] * b[2]) \div 1000, (a[3] * b[3]) \div 1000>>
\* Color * material coefficient (tenths)
ColorMulCoef(c, k) == <<(c[1] * k) \div 10, (c[2] * k) \div 10, (c[3] * k) \div 10>>
\* Color * scalar that is a whole number (a dot product of unit vectors, a power of it)
ColorMulF(c, f) == <<c[1] * f, c[2] * f, c[3] * f>>
ColorAdd(a, b) == <<a[1] + b[1], a[2] + b[2], a[3] + b[3]>>

(* ------------------------ lights.rs (external) ------------------------ *)
PointLight_new(intensity, position) == [intensity |-> intensity, position |-> position]

(* ----------------------------- materials.rs --------------------------- *)
Material_new ==
    [color |-> Color_new(1000, 1000, 1000), ambient |-> 1, diffuse |-> 9,
     specular |-> 9, shininess |-> 200]

\* mutant: the test light_dot_normal >= 0 dropped, diffuse and specular always added
lighting_no_facing_test(m, l, p, eyev, normalv) ==
    LET effective_color == ColorMul(m.color, l.intensity)
        lightv == normalize(Sub(l.position, p))
        ambient == ColorMulCoef(effective_color, m.ambient)
        light_dot_normal == dot(lightv, normalv)
        reflectv == reflect(Neg(lightv), normalv)
        reflect_dot_eye == dot(reflectv, eyev)
        diffuse == ColorMulF(ColorMulCoef(effective_color, m.diffuse), light_dot_normal)
        specular ==
            IF reflect_dot_eye > 0
            THEN ColorMulF(ColorMulCoef(l.intensity, m.specular),
                           powf(reflect_dot_eye, m.shininess))
            ELSE Color_new(0, 0, 0)
    IN  ColorAdd(ColorAdd(ambient, diffuse), specular)

\* Material::lighting(&self, light, point, eyev, normalv)
lighting(m, l, p, eyev, normalv) ==
    LET effective_color == ColorMul(m.color, l.intensity)
        lightv == normalize(Sub(l.position, p))
        ambient == ColorMulCoef(effective_color, m.ambient)
        light_dot_normal == dot(lightv, normalv)
        reflectv == reflect(Neg(lightv), normalv)
        reflect_dot_eye == dot(reflectv, eyev)
        diffuse ==
            IF light_dot_normal >= 0
            THEN ColorMulF(ColorMulCoef(effective_color, m.diffuse), light_dot_normal)
            ELSE Color_new(0, 0, 0)
        specular ==
            IF light_dot_normal >= 0 /\ reflect_dot_eye > 0
            THEN ColorMulF(ColorMulCoef(l.intensity, m.specular),
                           powf(reflect_dot_eye, m.shininess))
            ELSE Color_new(0, 0, 0)
    IN  ColorAdd(ColorAdd(ambient, diffuse), specular)

(* -------------------------- ray.rs (external) ------------------------- *)
Ray_new(origin, direction) == [origin |-> origin, direction |-> direction]
position(r, t) == Add(r.origin, Mul(r.direction, t))

(* ------------------------- shape.rs (external) ------------------------ *)
\* A Shape is its ShapeType, its material and its transform.  The transform
\* is translate(center) * scale(radius, radius, radius) for a sphere and
\* translate(center) * R for a plane, R the rotation taking +y to `normal`.
Sphere(center, radius, material) ==
    [kind |-> "Sphere", center |-> center, radius |-> radius,
     normal |-> vector(0, 0, 0), material |-> material]
Plane(center, normal, material) ==
    [kind |-> "Plane", center |-> center, radius |-> 1,
     normal |-> normal, material |-> material]

Intersection_new(t, shape) == [t |-> t, shape |-> shape]

\* Shape::intersect(ray); `k` is the reference to the shape, its index in World.shapes.
\* Sphere: the quadratic of the ray taken into object space, multiplied through by
\* radius^2; discriminant < 0 is a miss, otherwise both roots are produced.
\* Plane: no intersection when the object-space direction has y = 0, otherwise the
\* single t = -origin.y / direction.y.
shape_intersect(s, k, r) ==
    LET oc == Sub(r.origin, s.center)
    IN  IF s.kind = "Sphere"
        THEN LET a == dot(r.direction, r.direction)
                 b == 2 * dot(r.direction, oc)
                 c == dot(oc, oc) - s.radius * s.radius
                 disc == b * b - 4 * a * c
             IN  IF disc < 0 \/ a = 0
                 THEN <<>>
                 ELSE <<Intersection_new((-b - Isqrt(disc)) \div (2 * a), k),
                        Intersection_new((-b + Isqrt(disc)) \div (2 * a), k)>>
        ELSE LET dy == dot(s.normal, r.direction)
                 oy == dot(s.normal, oc)
             IN  IF dy = 0
                 THEN <<>>
                 ELSE <<Intersection_new((-oy) \div dy, k)>>

\* Shape::normal(point): the unit outward normal in world space
shape_normal(s, p) ==
    IF s.kind = "Sphere" THEN normalize(Sub(p, s.center)) ELSE s.normal

(* --------------------- intersections.rs (external) -------------------- *)
\* stable insertion of x into the ascending sequence s: after every element <= x
RECURSIVE InsertByT(_, _)
InsertByT(s, x) ==
    IF s = <<>> THEN <<x>>
    ELSE IF s[Len(s)].t <= x.t THEN Append(s, x)
    ELSE Append(InsertByT(SubSeq(s, 1, Len(s) - 1), x), s[Len(s)])

\* stable sort ascending by t
RECURSIVE SortByT(_)
SortByT(s) ==
    IF s = <<>> THEN <<>>
    ELSE InsertByT(SortByT(SubSeq(s, 1, Len(s) - 1)), s[Len(s)])

Range(s) == { s[j] : j \in 1..Len(s) }

None == [some |-> FALSE, t |-> 0, shape |-> 0]
Some(i) == [some |-> TRUE, t |-> i.t, shape |-> i.shape]

RECURSIVE FirstNonNegative(_)
FirstNonNegative(s) ==
    IF s = <<>> THEN None
    ELSE IF s[1].t >= 0 THEN Some(s[1])
    ELSE FirstNonNegative(Tail(s))

\* hit(xs): sort ascending by t, then the first intersection with t >= 0
hit(s) == FirstNonNegative(SortByT(s))

(* ------------------------------- world.rs ----------------------------- *)
World(l, ss) == [light |-> l, shapes |-> ss]

\* the loop of World::intersect: xs.append(&mut shape.intersect(ray)) for shapes k..
RECURSIVE Collect(_, _, _)
Collect(ss, r, k) ==
    IF k > Len(ss) THEN <<>>
    ELSE shape_intersect(ss[k], k, r) \o Collect(ss, r, k + 1)

\* mutant: the sort is left out
intersect_unsorted(w, r) == Collect(w.shapes, r, 1)

\* mutant: the loop stops one shape early
intersect_skips_last(w, r) ==
    SortByT(Collect(SubSeq(w.shapes, 1, Len(w.shapes) - 1), r, 1))

\* World::intersect(&self, ray)
intersect(w, r) == SortByT(Collect(w.shapes, r, 1))

\* mutant: the normal is never flipped
prepare_computations_no_flip(ss, i, r) ==
    LET pnt == position(r, i.t)
        eyev == Neg(r.direction)
        normalv == shape_normal(ss[i.shape], pnt)
    IN  [t |-> i.t, shape |-> i.shape, point |-> pnt,
         over_point |-> Add(pnt, Mul(normalv, OVER_POINT_EPSILON)),
         eyev |-> eyev, normalv |-> normalv, inside |-> FALSE]

\* World::prepare_computations(intersection, ray); `ss` resolves the shape reference
prepare_computations(ss, i, r) ==
    LET t == i.t
        shape == i.shape
        pnt == position(r, i.t)
        eyev == Neg(r.direction)
        normalv0 == shape_normal(ss[shape], pnt)
        over_point == Add(pnt, Mul(normalv0, OVER_POINT_EPSILON))
        inside == dot(normalv0, eyev) < 0
        normalv == IF inside THEN Neg(normalv0) ELSE normalv0
    IN  [t |-> t, shape |-> shape, point |-> pnt, over_point |-> over_point,
         eyev |-> eyev, normalv |-> normalv, inside |-> inside]

\* mutant: the direction is used as it is, not normalized
shadow_ray_raw(w, p) == Ray_new(p, Sub(w.light.position, p))

\* the ray World::is_shadowed casts
shadow_ray(w, p) == Ray_new(p, normalize(Sub(w.light.position, p)))

\* mutant: a hit at the light's distance or beyond it still shadows
is_shadowed_any_hit(w, p) == hit(intersect(w, shadow_ray(w, p))).some

\* World::is_shadowed(&self, p)
is_shadowed(w, p) ==
    LET direction == Sub(w.light.position, p)
        distance == magnitude(direction)
        h == hit(intersect(w, shadow_ray(w, p)))
    IN  IF h.some THEN h.t < distance ELSE FALSE

\* World::shade_hit(&self, comps).  The call passes seven arguments; the
\* Material::lighting of materials.rs takes the material, the light, the point, the
\* eye vector and the normal, and has no parameter for comps.shape or for the value
\* of self.is_shadowed(comps.over_point).
shade_hit(w, c) ==
    lighting(w.shapes[c.shape].material, w.light, c.over_point, c.eyev, c.normalv)

\* mutant: the first intersection is shaded, whatever its sign
color_at_first(w, r) ==
    LET s == intersect(w, r)
    IN  IF s = <<>> THEN Color_new(0, 0, 0)
        ELSE shade_hit(w, prepare_computations(w.shapes, s[1], r))

\* World::color_at(&self, ray)
color_at(w, r) ==
    LET h == hit(intersect(w, r))
    IN  IF h.some
        THEN shade_hit(w, prepare_computations(w.shapes, h, r))
        ELSE Color_new(0, 0, 0)

(* --------------------------- the input sets --------------------------- *)
\* the material of the first sphere of World::default
M1 == [Material_new EXCEPT !.color = Color_new(800, 1000, 600), !.diffuse = 7,
                           !.specular = 2]
\* the floor material of draw_planes
M3 == [Material_new EXCEPT !.color = Color_new(200, 800, 200)]

\* the shapes of World::default: a sphere and, inside it, a sphere of half its size
DefaultShapes == <<Sphere(point(0, 0, 0), 2, M1), Sphere(point(0, 0, 0), 1, Material_new)>>

\* the shapes pushed
ShapeSet ==
    { Sphere(point(0, 0, 2), 2, Material_new),  \* overlaps the default spheres
      Sphere(point(4, 0, 0), 1, Material_new),  \* off the axis: always missed
      Plane(point(0, 0, 1), vector(0, 0, 1), M3),   \* a wall across the axis at z = 1
      Plane(point(0, 0, 0), vector(0, 1, 0), M3) }  \* the floor: parallel to every ray

LightSet ==
    { PointLight_new(Color_new(1000, 1000, 1000), point(0, 0, -6)),
      PointLight_new(Color_new(500, 500, 500), point(0, 0, 2)) }

ZPoints == { point(0, 0, z) : z \in -MaxZ..MaxZ }
RaySet == { Ray_new(o, d) : o \in ZPoints, d \in {vector(0, 0, 1), vector(0, 0, -1)} }

NoRay == Ray_new(point(0, 0, 0), vector(0, 0, 0))
NoPoint == point(0, 0, 0)
NoComps ==
    [t |-> 0, shape |-> 0, point |-> NoPoint, over_point |-> NoPoint,
     eyev |-> vector(0, 0, 0), normalv |-> vector(0, 0, 0), inside |-> FALSE]
NoArgs ==
    [material |-> Material_new, light |-> PointLight_new(Black, NoPoint),
     eyev |-> vector(0, 0, 0), normalv |-> vector(0, 0, 0)]

\* the record of a call: its name, its arguments and what it returned; the
\* fields the call does not have hold the No* values
Called(o, r, p, i, c, x, cm, sh, sr, h, la) ==
    /\ op' = o /\ ray' = r /\ pt' = p /\ isect' = i /\ color' = c /\ xs' = x
    /\ comps' = cm /\ shadow' = sh /\ sray' = sr /\ hitrec' = h /\ largs' = la
    /\ again' = (o = "color_at" /\ op = "color_at" /\ ray = r)

\* normalize() of the zero vector is not a number: the light must not sit on p
Lit(w, p) == p # w.light.position

(* ------------------------------ the machine --------------------------- *)
\* a World as World::new() or World::default() leave its shapes, with the light
\* the caller gives it
Init ==
    /\ light \in LightSet
    /\ shapes \in {<<>>, DefaultShapes}
    /\ op = "new"
    /\ ray = NoRay /\ pt = NoPoint /\ isect = None /\ color = Black
    /\ xs = <<>> /\ comps = NoComps /\ shadow = FALSE /\ sray = NoRay
    /\ hitrec = None /\ largs = NoArgs /\ again = FALSE

\* the shapes pushed since construction
Pushed == IF Len(shapes) >= 2 /\ SubSeq(shapes, 1, 2) = DefaultShapes
          THEN Len(shapes) - 2 ELSE Len(shapes)

\* w.shapes.push(s)
PushShape(s) ==
    /\ Pushed < MaxPush
    /\ shapes' = Append(shapes, s)
    /\ UNCHANGED light
    /\ Called("push", NoRay, NoPoint, None, Black, <<>>, NoComps, FALSE, NoRay, None,
              NoArgs)

\* w.light = l
SetLight(l) ==
    /\ l # light
    /\ light' = l
    /\ UNCHANGED shapes
    /\ Called("set_light", NoRay, NoPoint, None, Black, <<>>, NoComps, FALSE, NoRay,
              None, NoArgs)

\* mutant: the call drains the shapes it has intersected
ColorAtDraining(r) ==
    LET w == World(light, shapes)
        h == hit(intersect(w, r))
    IN  /\ h.some => Lit(w, prepare_computations(shapes, h, r).over_point)
        /\ Called("color_at", r, NoPoint, None, color_at(w, r), <<>>, NoComps, FALSE,
                  NoRay, h, NoArgs)
        /\ shapes' = <<>>
        /\ UNCHANGED light

\* w.color_at(r)
ColorAt(r) ==
    LET w == World(light, shapes)
        h == hit(intersect(w, r))
    IN  /\ h.some => Lit(w, prepare_computations(shapes, h, r).over_point)
        /\ Called("color_at", r, NoPoint, None, color_at(w, r), <<>>, NoComps, FALSE,
                  NoRay, h, NoArgs)
        /\ UNCHANGED <<light, shapes>>

\* w.intersect(r)
Intersect(r) ==
    /\ Called("intersect", r, NoPoint, None, Black, intersect(World(light, shapes), r),
              NoComps, FALSE, NoRay, None, NoArgs)
    /\ UNCHANGED <<light, shapes>>

\* World::prepare_computations(i, r), i one of the intersections of r with the world
PrepareComputations(r) ==
    \E i \in { Some(x) : x \in Range(intersect(World(light, shapes), r)) } :
        /\ Called("prepare_computations", r, NoPoint, i, Black, <<>>,
                  prepare_computations(shapes, i, r), FALSE, NoRay, None, NoArgs)
        /\ UNCHANGED <<light, shapes>>

\* w.shade_hit(World::prepare_computations(i, r)); `shadow` keeps the value of
\* self.is_shadowed(comps.over_point) that the call evaluates
ShadeHit(r) ==
    \E i \in { Some(x) : x \in Range(intersect(World(light, shapes), r)) } :
        LET w == World(light, shapes)
            c == prepare_computations(shapes, i, r)
        IN  /\ Lit(w, c.over_point)
            /\ Called("shade_hit", r, NoPoint, i, shade_hit(w, c), <<>>, c,
                      is_shadowed(w, c.over_point), NoRay, None, NoArgs)
            /\ UNCHANGED <<light, shapes>>

\* w.is_shadowed(p)
IsShadowed(p) ==
    LET w == World(light, shapes)
    IN  /\ Lit(w, p)
        /\ Called("is_shadowed", NoRay, p, None, Black, <<>>, NoComps,
                  is_shadowed(w, p), shadow_ray(w, p), None, NoArgs)
        /\ UNCHANGED <<light, shapes>>

Next ==
    \/ \E s \in ShapeSet : PushShape(s)
    \/ \E l \in LightSet : SetLight(l)
    \/ \E r \in RaySet : ColorAt(r)
    \/ \E r \in RaySet : Intersect(r)
    \/ \E r \in RaySet : PrepareComputations(r)
    \/ \E r \in RaySet : ShadeHit(r)
    \/ \E p \in ZPoints : IsShadowed(p)

Spec == Init /\ [][Next]_vars

(* ------------------- Material::lighting on its own -------------------- *)
\* eye vectors along the axis and across it; normals facing the light, facing away
\* from it and at a right angle to it
EyeSet == { vector(0, 0, 1), vector(0, 0, -1), vector(0, 1, 0), vector(0, -1, 0) }
NormalSet == { vector(0, 0, 1), vector(0, 0, -1), vector(1, 0, 0), vector(-1, 0, 0) }

\* the lights of the tests of materials.rs, brought onto the axis, and a dim one
LightingLights ==
    { PointLight_new(Color_new(1000, 1000, 1000), point(0, 0, -10)),
      PointLight_new(Color_new(1000, 1000, 1000), point(0, 0, 10)),
      PointLight_new(Color_new(500, 500, 500), point(0, 0, -10)) }

\* m.lighting(l, p, eyev, normalv)
Lighting(m, l, p, eyev, normalv) ==
    /\ p # l.position
    /\ Called("lighting", NoRay, p, None, lighting(m, l, p, eyev, normalv), <<>>,
              NoComps, FALSE, NoRay, None,
              [material |-> m, light |-> l, eyev |-> eyev, normalv |-> normalv])
    /\ UNCHANGED <<light, shapes>>

NextLighting ==
    \E m \in {Material_new, M1}, l \in LightingLights, p \in ZPoints,
       eyev \in EyeSet, normalv \in NormalSet :
        Lighting(m, l, p, eyev, normalv)

\* no World is involved: the light and the material are arguments
InitLighting ==
    /\ light = PointLight_new(Color_new(1000, 1000, 1000), point(0, 0, -6))
    /\ shapes = <<>>
    /\ op = "new"
    /\ ray = NoRay /\ pt = NoPoint /\ isect = None /\ color = Black
    /\ xs = <<>> /\ comps = NoComps /\ shadow = FALSE /\ sray = NoRay
    /\ hitrec = None /\ largs = NoArgs /\ again = FALSE

SpecLighting == InitLighting /\ [][NextLighting]_vars

(* ------------------------------ properties ---------------------------- *)
TheWorld == World(light, shapes)

Abs(n) == IF n < 0 THEN -n ELSE n
Sgn(n) == IF n < 0 THEN -1 ELSE IF n > 0 THEN 1 ELSE 0

\* every intersection of ray r with every shape of ss, shape by shape
AllXs(ss, r) ==
    UNION { Range(shape_intersect(ss[k], k, r)) : k \in 1..Len(ss) }
NonNegXs(ss, r) == { x \in AllXs(ss, r) : x.t >= 0 }
\* the intersections at the smallest non-negative t
NearestXs(ss, r) ==
    { x \in NonNegXs(ss, r) : \A y \in NonNegXs(ss, r) : x.t <= y.t }

Count(s, x) == Cardinality({ j \in 1..Len(s) : s[j] = x })
RECURSIVE SumLen(_, _, _)
SumLen(ss, r, k) ==
    IF k > Len(ss) THEN 0
    ELSE Len(shape_intersect(ss[k], k, r)) + SumLen(ss, r, k + 1)

\* the shapes of ss in every order
Orders(ss) ==
    { [j \in 1..Len(ss) |-> ss[f[j]]] :
        f \in { g \in [1..Len(ss) -> 1..Len(ss)] :
                  \A a, b \in 1..Len(ss) : g[a] = g[b] => a = b } }

\* color_at is defined on w for r: the shadow ray of the hit has a direction
Defined(w, r) ==
    LET h == hit(intersect(w, r))
    IN  h.some => Lit(w, prepare_computations(w.shapes, h, r).over_point)

\* the unit vector from p to the light and the distance between them, on the axis
Toward(p) == vector(0, 0, Sgn(light.position[3] - p[3]))
Dist(p) == Abs(light.position[3] - p[3])

\* ambient term of material m under light l
AmbientOf(m, l) ==
    <<(m.color[1] * l.intensity[1] * m.ambient) \div 10000,
      (m.color[2] * l.intensity[2] * m.ambient) \div 10000,
      (m.color[3] * l.intensity[3] * m.ambient) \div 10000>>

\* C1: color_at returns black when no intersection has t >= 0, and otherwise the
\* shading of an intersection with the smallest non-negative t; an intersection
\* with negative t is never the one shaded.
C1_ColorAtShadesNearestHit ==
    op = "color_at" =>
        IF NonNegXs(shapes, ray) = {}
        THEN hitrec = None /\ color = Black
        ELSE /\ hitrec.some
             /\ Intersection_new(hitrec.t, hitrec.shape) \in NearestXs(shapes, ray)
             /\ color = shade_hit(TheWorld,
                                  prepare_computations(shapes, hitrec, ray))

\* an intersection behind the origin is nearer than the hit, and the hit is shaded
C1_Witness ==
    /\ op = "color_at"
    /\ hitrec.some
    /\ color # Black
    /\ \E x \in AllXs(shapes, ray) : x.t < 0 /\ -x.t < hitrec.t

\* a ray with intersections, none of them in front of it, is black
C1_WitnessBehind ==
    /\ op = "color_at"
    /\ AllXs(shapes, ray) # {}
    /\ NonNegXs(shapes, ray) = {}
    /\ color = Black

\* C2, as claimed: is_shadowed(P) is true exactly when some shape intersects the
\* ray from P toward the light at a t with 0 < t < distance(P, L).
C2_ShadowIffStrictlyBetween ==
    op = "is_shadowed" =>
        (shadow <=> \E x \in AllXs(shapes, Ray_new(pt, Toward(pt))) :
                        0 < x.t /\ x.t < Dist(pt))

\* C2, amended: for P off the light, is_shadowed(P) is true exactly when some
\* shape intersects the unit ray from P toward the light at a t with
\* 0 <= t < distance(P, L); a surface through P itself (t = 0) shadows P.
C2_ShadowIffBetweenOrAt ==
    op = "is_shadowed" =>
        (shadow <=> \E x \in AllXs(shapes, Ray_new(pt, Toward(pt))) :
                        0 <= x.t /\ x.t < Dist(pt))

\* a shape strictly between P and the light shadows P
C2_Witness ==
    /\ op = "is_shadowed"
    /\ shadow
    /\ \E x \in AllXs(shapes, Ray_new(pt, Toward(pt))) : 0 < x.t /\ x.t < Dist(pt)

\* shapes behind P and at or beyond the light only: no shadow
C2_WitnessBeyond ==
    /\ op = "is_shadowed"
    /\ ~shadow
    /\ \E x \in AllXs(shapes, Ray_new(pt, Toward(pt))) : x.t >= Dist(pt)
    /\ \E x \in AllXs(shapes, Ray_new(pt, Toward(pt))) : x.t < 0

\* C3: intersect returns exactly the intersections of every shape, each as often
\* as the shapes produce it, in non-decreasing order of t.
C3_IntersectIsSortedUnion ==
    op = "intersect" =>
        /\ Len(xs) = SumLen(shapes, ray, 1)
        /\ Range(xs) = AllXs(shapes, ray)
        /\ \A x \in AllXs(shapes, ray) :
               Count(xs, x) = Count(shape_intersect(shapes[x.shape], x.shape, ray), x)
        /\ \A j \in 1..(Len(xs) - 1) : xs[j].t <= xs[j + 1].t

\* the shapes were pushed in an order that is not the order of their intersections
C3_Witness ==
    /\ op = "intersect"
    /\ Len(xs) >= 3
    /\ xs # Collect(shapes, ray, 1)
    /\ \E j \in 1..(Len(xs) - 1) : xs[j].shape > xs[j + 1].shape

\* C4, as claimed: when the over_point of the hit is in shadow, shade_hit returns
\* the ambient term only.
C4_ShadowedIsAmbientOnly ==
    (op = "shade_hit" /\ shadow) =>
        color = AmbientOf(shapes[comps.shape].material, light)

\* C5: lighting returns ambient + diffuse + specular, not clamped; diffuse and
\* specular are black when light_dot_normal < 0; diffuse is effective_color *
\* diffuse * light_dot_normal when light_dot_normal >= 0, and specular is added
\* only when also reflect_dot_eye > 0; default material, white light and eye,
\* normal and light aligned give 1.9 per channel.
C5_Lighting ==
    op = "lighting" =>
        LET m == largs.material
            l == largs.light
            lv == vector(0, 0, Sgn(l.position[3] - pt[3]))
            ldn == dot(lv, largs.normalv)
            rde == dot(reflect(Neg(lv), largs.normalv), largs.eyev)
            amb == AmbientOf(m, l)
            dif == <<(m.color[1] * l.intensity[1] * m.diffuse * ldn) \div 10000,
                     (m.color[2] * l.intensity[2] * m.diffuse * ldn) \div 10000,
                     (m.color[3] * l.intensity[3] * m.diffuse * ldn) \div 10000>>
            spe == <<(l.intensity[1] * m.specular) \div 10,
                     (l.intensity[2] * m.specular) \div 10,
                     (l.intensity[3] * m.specular) \div 10>>
        IN  /\ ldn < 0 => color = amb
            /\ (ldn >= 0 /\ rde <= 0) => color = ColorAdd(amb, dif)
            /\ (ldn >= 0 /\ rde > 0) => color = ColorAdd(ColorAdd(amb, dif), spe)
            /\ (m = Material_new /\ l.intensity = White /\ largs.eyev = lv
                    /\ largs.normalv = lv)
                   => color = Color_new(1900, 1900, 1900)

\* the light is behind the surface and the eye is where the reflection would go
C5_Witness ==
    /\ op = "lighting"
    /\ dot(vector(0, 0, Sgn(largs.light.position[3] - pt[3])), largs.normalv) < 0
    /\ largs.eyev = vector(0, 0, Sgn(largs.light.position[3] - pt[3]))
    /\ color = AmbientOf(largs.material, largs.light)

\* the sum goes above 1.0
C5_WitnessUnclamped ==
    op = "lighting" /\ color = Color_new(1900, 1900, 1900)

\* C6, as claimed: the same shapes in any other order give the same color_at.
C6_OrderNeverMatters ==
    op = "color_at" =>
        \A ss \in Orders(shapes) :
            Defined(World(light, ss), ray) => color_at(World(light, ss), ray) = color

\* C6, amended: the same shapes in any other order give the same color_at for
\* every ray whose smallest non-negative t is reached on one shape only; when two
\* shapes tie there, the one pushed first is shaded.
C6_OrderMattersOnlyInTies ==
    (op = "color_at"
        /\ Cardinality({ x.shape : x \in NearestXs(shapes, ray) }) <= 1) =>
        \A ss \in Orders(shapes) :
            Defined(World(light, ss), ray) => color_at(World(light, ss), ray) = color

\* three shapes, the hit on the one pushed last
C6_Witness ==
    /\ op = "color_at"
    /\ Len(shapes) >= 3
    /\ hitrec.some
    /\ hitrec.shape = Len(shapes)
    /\ Cardinality({ x.shape : x \in NearestXs(shapes, ray) }) = 1
    /\ color # Black

\* C7: no query changes the World's light or shapes, and color_at called again
\* with the same ray returns the same color.
C7_QueriesLeaveTheWorldAlone ==
    [][ /\ op' \in {"color_at", "intersect", "prepare_computations", "shade_hit",
                    "is_shadowed"}
            => (light' = light /\ shapes' = shapes)
        /\ again' => color' = color ]_vars

\* color_at was called twice in a row with the same ray, and hit something
C7_Witness ==
    again /\ hitrec.some /\ color # Black

\* C8, as claimed: the shadow ray has the direction light.position - point as it
\* is, and the nearest hit's t is compared with the magnitude of that vector.
C8_ShadowRayNotNormalized ==
    op = "is_shadowed" =>
        /\ sray = Ray_new(pt, Sub(light.position, pt))
        /\ shadow <=> \E x \in NearestXs(shapes, sray) : x.t < Dist(pt)

\* C8, amended: the shadow ray goes from point in the direction
\* normalize(light.position - point), of length 1, and the nearest hit's t along
\* it is compared with the magnitude of light.position - point.
C8_ShadowRayNormalized ==
    op = "is_shadowed" =>
        /\ sray.origin = pt
        /\ dot(sray.direction, sray.direction) = 1
        /\ Mul(sray.direction, Dist(pt)) = Sub(light.position, pt)
        /\ shadow <=> \E x \in NearestXs(shapes, sray) : x.t < Dist(pt)

\* the light is further than 1 from the point, and something is hit
C8_Witness ==
    /\ op = "is_shadowed"
    /\ Dist(pt) > 1
    /\ NearestXs(shapes, sray) # {}

\* C9: prepare_computations returns t and the shape unchanged, point =
\* ray.position(t), eyev = -ray.direction, inside exactly when the surface normal
\* and eyev have a negative dot product, and then the negated normal; so
\* dot(normalv, eyev) >= 0.
C9_PrepareComputations ==
    op = "prepare_computations" =>
        LET n == shape_normal(shapes[isect.shape], comps.point)
        IN  /\ comps.t = isect.t
            /\ comps.shape = isect.shape
            /\ comps.point = Add(ray.origin, Mul(ray.direction, isect.t))
            /\ comps.eyev = Neg(ray.direction)
            /\ comps.inside <=> dot(n, comps.eyev) < 0
            /\ comps.normalv = IF comps.inside THEN Neg(n) ELSE n
            /\ dot(comps.normalv, comps.eyev) >= 0

\* a hit from the inside: the normal was flipped
C9_Witness ==
    /\ op = "prepare_computations"
    /\ comps.inside
    /\ comps.normalv = Neg(shape_normal(shapes[isect.shape], comps.point))

\* C10, as claimed: over_point = point + normalv * epsilon for the normalv returned,
\* so over_point lies on the side of the surface that faces the eye.
C10_OverPointOnEyeSide ==
    op = "prepare_computations" =>
        /\ comps.over_point = Add(comps.point, Mul(comps.normalv, OVER_POINT_EPSILON))
        /\ dot(Sub(comps.over_point, comps.point), comps.eyev) >= 0

====
